---- MODULE Spec2Model ----
(***************************************************************************)
(* Model of src/log_buffer.py: the LogBuffer ring with partial-line        *)
(* reassembly, the _AsyncFileWriter queue with its background worker, the  *)
(* module-level writer singleton and the file-backed history reader.       *)
(*                                                                         *)
(* Text is a sequence of characters, each a one-character string; the     *)
(* drop annotation is spelled character by character.  Two kinds of        *)
(* multi-character items stand for one indivisible unit each: an ANSI SGR  *)
(* escape sequence ("ESC[94m", "ESC[0m", "ESC[31m") and a timestamp        *)
(* produced by datetime.now().strftime ("T0", "T1", ...).  Neither holds a *)
(* line boundary, "[" as first character or "]" anywhere, so startswith,   *)
(* find, splitlines and rstrip read the same on the units as on their      *)
(* characters; the substring test of search does so for patterns made of   *)
(* letters only (an escape sequence holds "[", digits and "m", a timestamp *)
(* digits, "-", ":" and " "), and the patterns searched here are made of   *)
(* "a", "A", "x" and "X".  A write that fails may leave a timestamp cut     *)
(* short in the file: "T0~" stands for a non-empty proper prefix of the    *)
(* characters of timestamp "T0".                                           *)
(***************************************************************************)
EXTENDS Integers, Sequences, FiniteSets, TLC

\* ------------------------------------------------------------------------
\* Bounds of the model
\* ------------------------------------------------------------------------
MaxLen == 4
MaxClock == 1
MaxAppends == 4
MaxWrites == 3
MaxClears == 1
MaxWriters == 2
MaxFails == 1
MaxHist == 10
MaxSize == 6

\* ------------------------------------------------------------------------
\* Program constants (scaled)
\* ------------------------------------------------------------------------
\* config.MAX_LOG_LINES, the maxlen of the deque (log_buffer.py:106)
MAX_LOG_LINES == 3
\* _AsyncFileWriter.__init__(max_queue=10000)
max_queue == 2

Bufs == {1, 2}

LF == "\n"
CR == "\r"
FF == "\f"
CSI_BLUE == "ESC[94m"
CSI_RESET == "ESC[0m"
CSI_RED == "ESC[31m"
AnsiCodes == {CSI_BLUE, CSI_RESET, CSI_RED}

\* ------------------------------------------------------------------------
\* Python string primitives, on sequences of characters
\* ------------------------------------------------------------------------
Range(s) == {s[i] : i \in 1..Len(s)}

\* the characters str.splitlines treats as a line boundary (those of them the
\* model's alphabet holds; "\r\n" counts as one boundary)
LineBoundaries == {LF, CR, FF}

Drop(s, n) == SubSeq(s, n + 1, Len(s))

\* index (1-based) of the first element of s in set S at or after position i, 0
\* when there is none
FirstIn(s, S, i) ==
  LET I == {k \in i..Len(s) : s[k] \in S}
  IN  IF I = {} THEN 0 ELSE CHOOSE k \in I : \A j \in I : k <= j

\* str.splitlines(keepends=True)
RECURSIVE splitlines_keepends(_)
splitlines_keepends(s) ==
  IF s = <<>> THEN <<>>
  ELSE LET i == FirstIn(s, LineBoundaries, 1) IN
       IF i = 0 THEN <<s>>
       ELSE LET e == IF s[i] = CR /\ i < Len(s) /\ s[i + 1] = LF THEN i + 1 ELSE i
            IN  <<SubSeq(s, 1, e)>> \o splitlines_keepends(Drop(s, e))

\* str.splitlines(): the same pieces without their boundary
RECURSIVE splitlines(_)
splitlines(s) ==
  IF s = <<>> THEN <<>>
  ELSE LET i == FirstIn(s, LineBoundaries, 1) IN
       IF i = 0 THEN <<s>>
       ELSE LET e == IF s[i] = CR /\ i < Len(s) /\ s[i + 1] = LF THEN i + 1 ELSE i
            IN  <<SubSeq(s, 1, i - 1)>> \o splitlines(Drop(s, e))

\* mutant of rstrip_nl: nothing is stripped
rstrip_nothing(s) == s

\* str.rstrip("\n")
RECURSIVE rstrip_nl(_)
rstrip_nl(s) ==
  IF s # <<>> /\ s[Len(s)] = LF THEN rstrip_nl(SubSeq(s, 1, Len(s) - 1)) ELSE s

\* str.endswith("\n")
endswith_nl(s) == s # <<>> /\ s[Len(s)] = LF

\* "".join(list)
RECURSIVE join(_)
join(ss) == IF ss = <<>> THEN <<>> ELSE Head(ss) \o join(Tail(ss))

\* str.lower(), per character
LowerChar(c) == IF c = "A" THEN "a" ELSE IF c = "B" THEN "b" ELSE IF c = "X" THEN "x" ELSE c
lower(s) == [i \in 1..Len(s) |-> LowerChar(s[i])]

\* p in s (substring test)
contains(s, p) ==
  \E i \in 0..(Len(s) - Len(p)) : SubSeq(s, i + 1, i + Len(p)) = p

\* ------------------------------------------------------------------------
\* config.normalize and config.strip_ansi (spec section 4.1)
\* ------------------------------------------------------------------------
\* replace "\r\n" by "\n": every "\r" that a "\n" follows is left out
ReplaceCRLF(s) ==
  LET kept == SelectSeq([i \in 1..Len(s) |-> i],
                        LAMBDA i : ~(s[i] = CR /\ i < Len(s) /\ s[i + 1] = LF))
  IN  [k \in 1..Len(kept) |-> s[kept[k]]]

\* replace "\r" by "\n"
ReplaceCR(s) == [i \in 1..Len(s) |-> IF s[i] = CR THEN LF ELSE s[i]]

normalize(s) == ReplaceCR(ReplaceCRLF(s))

strip_ansi(s) == SelectSeq(s, LAMBDA c : c \notin AnsiCodes)

\* ------------------------------------------------------------------------
\* State
\* ------------------------------------------------------------------------
VARIABLES
  buf,     \* buf[b]: the LogBuffer named b: lines (the deque), partial, cache, mtime
  fs,      \* fs[b]: the file LOGS_DIR/b.log: exists, data, mtime
  wr,      \* wr[w]: the w-th _AsyncFileWriter created: q, stop, dropped, and its
           \*        worker thread's pc, job (path, text) and local `dropped`
  glob,    \* _GLOBAL_WRITER: an index of wr, 0 for None
  ui,      \* the UI thread: idle, inside `self._dropped += 1`, inside join(), or
           \*        inside _read_file between stat() and read_text()
  clock,   \* datetime.now(), in seconds
  ret,     \* what the last LogBuffer call returned
  feed,    \* input stream still to be delivered in chunks (SpecChunks only)
  pager,   \* a caller paging backwards through the history (SpecPaging only)
  hist     \* history variables (observations, not program state)

vars == <<buf, fs, wr, glob, ui, clock, ret, feed, pager, hist>>

None == [some |-> FALSE, v |-> <<>>]
Some(l) == [some |-> TRUE, v |-> l]

NoJob == [path |-> 0, text |-> <<>>]
Idle == [pc |-> "idle", w |-> 0, loaded |-> 0]
NoRet == [op |-> "none"]
NoPager == [on |-> FALSE, size |-> 0, end |-> 0, chunks |-> <<>>, done |-> FALSE]

\* LogBuffer.__init__
NewLogBuffer == [lines |-> <<>>, partial |-> <<>>, cache |-> None, mtime |-> 0]

\* _AsyncFileWriter.__init__: empty queue, stop clear, dropped 0, thread started
NewWriter ==
  [q |-> <<>>, stop |-> FALSE, dropped |-> 0, pc |-> "check", job |-> NoJob, local |-> 0]

NoFile == [exists |-> FALSE, data |-> <<>>, mtime |-> 0]

NoHist ==
  [since    |-> [b \in Bufs |-> <<>>],   \* display lines appended since the last clear
   sent     |-> [b \in Bufs |-> <<>>],   \* every job passed to write: text, accepted, writer
   texts    |-> [b \in Bufs |-> <<>>],   \* every non-empty text passed to append
   last     |-> [op |-> "none", b |-> 0, text |-> <<>>, after |-> "none"],
                                         \* the last append or clear, and the one
                                         \* before it on the same buffer
   prev     |-> [b \in Bufs |-> "none"], \* the last of append, clear made on buffer b
   flines   |-> [b \in Bufs |-> <<>>],   \* every file rendering append produced
   dlines   |-> [b \in Bufs |-> <<>>],   \* every display rendering append produced
   cleared  |-> [b \in Bufs |-> FALSE],  \* clear(b) was called
   rej      |-> [b \in Bufs |-> 0],      \* jobs for file b rejected since the last
                                         \* annotation written into file b
   enq      |-> [w \in 1..MaxWriters |-> <<>>],  \* jobs put into writer w's queue
   taken    |-> [w \in 1..MaxWriters |-> <<>>],  \* jobs its worker got from the queue
   written  |-> [w \in 1..MaxWriters |-> <<>>],  \* jobs its worker appended to their file
   noted    |-> [w \in 1..MaxWriters |-> 0],     \* sum of the counts in the drop
                                                 \* annotations its worker wrote
   count    |-> [b \in Bufs |-> -1],             \* what the last line_count returned
   pending  |-> [w \in 1..MaxWriters |-> 0],     \* jobs queued when close() set stop
   early    |-> [w \in 1..MaxWriters |-> FALSE], \* close() returned before the worker ended
   appends  |-> 0,
   clears   |-> 0,
   shutdowns |-> 0,
   fails    |-> 0]

\* ------------------------------------------------------------------------
\* LogBuffer.append
\* ------------------------------------------------------------------------
\* datetime.now().strftime("%Y-%m-%d %H:%M:%S") at clock value t
Timestamp(t) == "T" \o ToString(t)

\* f"[\x1b[94m{ts}\x1b[0m] {content}\n"
DisplayLine(ts, content) == <<"[", CSI_BLUE, ts, CSI_RESET, "]", " ">> \o content \o <<LF>>

\* f"[{ts}] {strip_ansi(content)}\n"
FileLine(ts, content) == <<"[", ts, "]", " ">> \o strip_ansi(content) \o <<LF>>

\* mutant of RingAppend: a full ring refuses the new line instead of evicting
\* the oldest
RingAppend_KeepOldest(ring, x) ==
  IF Len(ring) >= MAX_LOG_LINES THEN ring ELSE Append(ring, x)

\* deque(maxlen=MAX_LOG_LINES).append
RingAppend(ring, x) ==
  LET r == Append(ring, x) IN IF Len(r) > MAX_LOG_LINES THEN Tail(r) ELSE r

RECURSIVE RingExtend(_, _)
RingExtend(ring, xs) ==
  IF xs = <<>> THEN ring ELSE RingExtend(RingAppend(ring, Head(xs)), Tail(xs))

\* lines 117-131: the complete parts of partial + normalize(text), and the new partial
SplitData(data) ==
  LET parts == splitlines_keepends(data)
      trailing == parts # <<>> /\ ~endswith_nl(parts[Len(parts)])
  IN  [parts   |-> IF trailing THEN SubSeq(parts, 1, Len(parts) - 1) ELSE parts,
       partial |-> IF trailing THEN parts[Len(parts)] ELSE <<>>]

\* _writer(): the writers after the call, and the one returned
WritersAfterGet == IF glob = 0 THEN Append(wr, NewWriter) ELSE wr
CurrentWriter == IF glob = 0 THEN Len(wr) + 1 ELSE glob

\* _AsyncFileWriter.write up to the outcome of put_nowait (lines 35-39); on
\* queue.Full the UI thread has still to load self._dropped and to store the
\* incremented value
write(ws, w, path, text) ==
  IF text = <<>> THEN [wr |-> ws, ui |-> Idle, acc |-> FALSE]
  ELSE IF Len(ws[w].q) < max_queue
  THEN [wr |-> [ws EXCEPT ![w].q = Append(@, [path |-> path, text |-> text])],
        ui |-> Idle, acc |-> TRUE]
  ELSE [wr |-> ws, ui |-> [pc |-> "load", w |-> w, loaded |-> 0], acc |-> FALSE]

\* (t: the second datetime.now() falls in, when line 126 is reached)
append(b, text, t) ==
  /\ ui.pc = "idle"
  /\ IF text = <<>>
     THEN /\ ret' = [op |-> "append", b |-> b, display |-> <<>>, file |-> <<>>]
          /\ hist' = [hist EXCEPT !.appends = @ + 1,
                                  !.last = [op |-> "append", b |-> b, text |-> text,
                                            after |-> hist.prev[b]],
                                  !.prev[b] = "append"]
          /\ UNCHANGED <<buf, fs, wr, glob, ui, clock>>
     ELSE LET data == buf[b].partial \o normalize(text) IN
          IF LF \notin Range(data)
          THEN /\ buf' = [buf EXCEPT ![b].partial = data]
               /\ ret' = [op |-> "append", b |-> b, display |-> <<>>, file |-> <<>>]
               /\ hist' = [hist EXCEPT !.appends = @ + 1, !.texts[b] = Append(@, text),
                                       !.last = [op |-> "append", b |-> b, text |-> text,
                                                 after |-> hist.prev[b]],
                                       !.prev[b] = "append"]
               /\ UNCHANGED <<fs, wr, glob, ui, clock>>
          ELSE /\ t \in {clock, clock + 1}
               /\ glob = 0 => Len(wr) < MaxWriters
               /\ LET ts == Timestamp(t)
                      sp == SplitData(data)
                      content == [i \in 1..Len(sp.parts) |-> rstrip_nl(sp.parts[i])]
                      display == [i \in 1..Len(sp.parts) |-> DisplayLine(ts, content[i])]
                      file_out == [i \in 1..Len(sp.parts) |-> FileLine(ts, content[i])]
                      wres == write(WritersAfterGet, CurrentWriter, b, join(file_out))
                  IN  /\ clock' = t
                      /\ buf' = [buf EXCEPT ![b].partial = sp.partial,
                                            ![b].lines = RingExtend(@, display),
                                            ![b].cache = None]
                      /\ glob' = CurrentWriter
                      /\ wr' = wres.wr
                      /\ ui' = wres.ui
                      /\ ret' = [op |-> "append", b |-> b,
                                 display |-> join(display), file |-> join(file_out)]
                      /\ hist' = [hist EXCEPT
                            !.appends = @ + 1,
                            !.texts[b] = Append(@, text),
                            !.last = [op |-> "append", b |-> b, text |-> text,
                                      after |-> hist.prev[b]],
                            !.prev[b] = "append",
                            !.rej[b] = IF wres.ui.pc = "load" THEN @ + 1 ELSE @,
                            !.enq[CurrentWriter] =
                               IF wres.acc THEN Append(@, [path |-> b, text |-> join(file_out)])
                               ELSE @,
                            !.since[b] = @ \o display,
                            !.dlines[b] = @ \o display,
                            !.flines[b] = @ \o file_out,
                            !.sent[b] = Append(@, [text |-> join(file_out),
                                                   acc |-> wres.acc,
                                                   w |-> CurrentWriter])]
                      /\ UNCHANGED fs

\* line 41, the load of `self._dropped += 1`
write_load ==
  /\ ui.pc = "load"
  /\ ui' = [ui EXCEPT !.pc = "store", !.loaded = wr[ui.w].dropped]
  /\ UNCHANGED <<buf, fs, wr, glob, clock, ret, feed, pager, hist>>

\* line 41, the store of `self._dropped += 1`
write_store ==
  /\ ui.pc = "store"
  /\ wr' = [wr EXCEPT ![ui.w].dropped = ui.loaded + 1]
  /\ ui' = Idle
  /\ UNCHANGED <<buf, fs, glob, clock, ret, feed, pager, hist>>

\* LogBuffer.get_recent
get_recent(b) == join(buf[b].lines)

\* ------------------------------------------------------------------------
\* LogBuffer.clear
\* ------------------------------------------------------------------------
\* (TRUE: write_text succeeded; FALSE: it raised and the exception is swallowed)
clear(b, ok) ==
  /\ ui.pc = "idle"
  /\ ~ok => hist.fails < MaxFails
  /\ buf' = [buf EXCEPT ![b].lines = <<>>, ![b].cache = None]
  /\ fs' = IF ok THEN [fs EXCEPT ![b] = [exists |-> TRUE, data |-> <<>>, mtime |-> @.mtime + 1]]
           ELSE fs
  /\ ret' = [op |-> "clear", b |-> b]
  /\ hist' = [hist EXCEPT !.since[b] = <<>>,
                          !.clears = @ + 1,
                          !.cleared[b] = TRUE,
                          !.fails = IF ok THEN @ ELSE @ + 1,
                          !.last = [op |-> "clear", b |-> b, text |-> <<>>,
                                    after |-> hist.prev[b]],
                          !.prev[b] = "clear"]
  /\ UNCHANGED <<wr, glob, ui, clock>>

\* ------------------------------------------------------------------------
\* The history reader
\* ------------------------------------------------------------------------
RingLines(b) == [i \in 1..Len(buf[b].lines) |-> rstrip_nl(buf[b].lines[i])]

\* `self._cache` is true: a list, and not the empty one
CacheUsable(b) == buf[b].cache.some /\ buf[b].cache.v # <<>>

\* the file's modification time is the one recorded at the last cached read
SameMtime(b) == fs[b].exists /\ fs[b].mtime = buf[b].mtime

\* mutant of read_file_stat: the cache is never used, the file is read on every
\* call
read_file_stat_AlwaysReads(b, ok) ==
  IF ~fs[b].exists \/ ~ok
  THEN [done |-> TRUE, list |-> [i \in 1..Len(buf[b].lines) |-> rstrip_nl(buf[b].lines[i])],
        mtime |-> 0]
  ELSE [done |-> FALSE, list |-> <<>>, mtime |-> fs[b].mtime]

\* mutant of read_file_stat: a cached list is returned without comparing the
\* modification times
read_file_stat_IgnoresMtime(b, ok) ==
  IF ~fs[b].exists \/ ~ok
  THEN [done |-> TRUE, list |-> [i \in 1..Len(buf[b].lines) |-> rstrip_nl(buf[b].lines[i])],
        mtime |-> 0]
  ELSE IF buf[b].cache.some /\ buf[b].cache.v # <<>>
  THEN [done |-> TRUE, list |-> buf[b].cache.v, mtime |-> fs[b].mtime]
  ELSE [done |-> FALSE, list |-> <<>>, mtime |-> fs[b].mtime]

\* LogBuffer._read_file, lines 155-160: exists(), stat() and the test of the
\* cache.  done: the call returns list without reading the file; otherwise
\* read_text follows, with the modification time taken here (ok = FALSE: stat
\* raised)
read_file_stat(b, ok) ==
  IF ~fs[b].exists \/ ~ok
  THEN [done |-> TRUE, list |-> RingLines(b), mtime |-> 0]
  ELSE IF buf[b].cache.some /\ buf[b].cache.v # <<>> /\ fs[b].mtime = buf[b].mtime
  THEN [done |-> TRUE, list |-> buf[b].cache.v, mtime |-> fs[b].mtime]
  ELSE [done |-> FALSE, list |-> <<>>, mtime |-> fs[b].mtime]

\* LogBuffer._read_file, lines 161-167: read_text() of the file as it is now,
\* recorded with the modification time stat() gave (ok = FALSE: read_text raised)
read_file_text(b, mtime, ok) ==
  IF ~ok
  THEN [list |-> RingLines(b), cache |-> buf[b].cache, mtime |-> buf[b].mtime,
        read |-> FALSE]
  ELSE LET l == splitlines(normalize(fs[b].data))
       IN  [list |-> l, cache |-> Some(l), mtime |-> mtime, read |-> TRUE]

\* LogBuffer._read_file with no step of another thread between stat() and
\* read_text(): the list returned, and _cache and _mtime after the call
read_file(b, ok) ==
  LET s == read_file_stat(b, ok) IN
  IF s.done
  THEN [list |-> s.list, cache |-> buf[b].cache, mtime |-> buf[b].mtime, read |-> FALSE]
  ELSE read_file_text(b, s.mtime, ok)

\* LogBuffer._colorize
colorize(line) ==
  IF line # <<>> /\ line[1] = "["
  THEN LET b == FirstIn(line, {"]"}, 1) - 1    \* line.find("]"), 0-based
       IN  IF b > 0
           THEN <<"[", CSI_BLUE>> \o SubSeq(line, 2, b) \o <<CSI_RESET, "]">> \o Drop(line, b + 1)
           ELSE line
  ELSE line

\* "".join(f"{self._colorize(l)}\n" for l in ls)
Rendered(ls) == join([i \in 1..Len(ls) |-> colorize(ls[i]) \o <<LF>>])

Max(a, b) == IF a >= b THEN a ELSE b
Min(a, b) == IF a <= b THEN a ELSE b

\* mutant of Slice: the end index taken as inclusive
Slice_Inclusive(l, start, end) == SubSeq(l, start + 1, Min(end + 1, Len(l)))

\* list[start:end] for start >= 0 and end > 0
Slice(l, start, end) == SubSeq(l, start + 1, Min(end, Len(l)))

\* mutant of load_chunk_of: the index returned is one past the chunk's first line
load_chunk_of_StartOffByOne(lines, end, size) ==
  IF lines = <<>> \/ end <= 0 THEN [text |-> <<>>, start |-> 0]
  ELSE LET start == Max(0, end - size)
           chunk == Slice(lines, start, end)
       IN  IF chunk = <<>> THEN [text |-> <<>>, start |-> 0]
           ELSE [text |-> Rendered(chunk), start |-> Max(0, end - size + 1)]

\* LogBuffer.load_chunk, on the list _read_file returned
load_chunk_of(lines, end, size) ==
  IF lines = <<>> \/ end <= 0 THEN [text |-> <<>>, start |-> 0]
  ELSE LET start == Max(0, end - size)
           chunk == Slice(lines, start, end)
       IN  IF chunk = <<>> THEN [text |-> <<>>, start |-> 0]
           ELSE [text |-> Rendered(chunk), start |-> start]

\* mutant of search_of: the lines are not lower-cased before the test
search_of_CaseSensitive(lines, pattern) ==
  LET p == lower(pattern)
      matches == SelectSeq(lines, LAMBDA l : contains(l, p))
  IN  IF matches = <<>> THEN [text |-> <<>>, count |-> 0]
      ELSE [text |-> Rendered(matches), count |-> Len(matches)]

\* LogBuffer.search, on the list _read_file returned
search_of(lines, pattern) ==
  LET p == lower(pattern)
      matches == SelectSeq(lines, LAMBDA l : contains(lower(l), p))
  IN  IF matches = <<>> THEN [text |-> <<>>, count |-> 0]
      ELSE [text |-> Rendered(matches), count |-> Len(matches)]

\* a call of line_count, load_chunk or search on LogBuffer b
Call(op, b, end, size, pattern) ==
  [op |-> op, b |-> b, end |-> end, size |-> size, pattern |-> pattern]

\* what the call returns from the list _read_file gave it (lines 170, 180-184,
\* 188-194), with what _read_file observed: o.read (the file was read), o.same
\* and o.cached (at stat(): the recorded modification time was the file's, a
\* non-empty list was cached), o.avail (the file existed, no call raised) and
\* o.data (the content of the file when _read_file returned)
returned(call, list, o) ==
  IF call.op = "line_count"
  THEN [op |-> "line_count", b |-> call.b, lines |-> list, count |-> Len(list),
        read |-> o.read, same |-> o.same, avail |-> o.avail, cached |-> o.cached,
        data |-> o.data]
  ELSE IF call.op = "load_chunk"
  THEN LET c == load_chunk_of(list, call.end, call.size)
       IN  [op |-> "load_chunk", b |-> call.b, lines |-> list, end |-> call.end,
            size |-> call.size, text |-> c.text, start |-> c.start,
            read |-> o.read, same |-> o.same, avail |-> o.avail, cached |-> o.cached,
            data |-> o.data]
  ELSE LET m == search_of(list, call.pattern)
       IN  [op |-> "search", b |-> call.b, lines |-> list, pattern |-> call.pattern,
            text |-> m.text, count |-> m.count,
            read |-> o.read, same |-> o.same, avail |-> o.avail, cached |-> o.cached,
            data |-> o.data]

\* the history variables after the call returned
observed(call, list) ==
  IF call.op = "line_count" THEN [hist EXCEPT !.count[call.b] = Len(list)] ELSE hist

\* a call up to the outcome of lines 155-160 of _read_file: it returns (from the
\* ring or from the cache), or the UI thread has still to call read_text()
read_begin(call, ok) ==
  /\ ui.pc = "idle"
  /\ LET b == call.b
         s == read_file_stat(b, ok)
         o == [read |-> FALSE, same |-> SameMtime(b), avail |-> fs[b].exists /\ ok,
               cached |-> CacheUsable(b), data |-> fs[b].data]
     IN  IF s.done
         THEN /\ ret' = returned(call, s.list, o)
              /\ hist' = observed(call, s.list)
              /\ UNCHANGED <<buf, ui>>
         ELSE /\ ui' = [pc |-> "read", w |-> 0, loaded |-> 0, call |-> call,
                        mtime |-> s.mtime, same |-> o.same, cached |-> o.cached]
              /\ UNCHANGED <<buf, ret, hist>>
  /\ UNCHANGED <<fs, wr, glob, clock>>

\* the rest of the call: lines 161-167 of _read_file and the caller's lines
read_end(ok) ==
  /\ ui.pc = "read"
  /\ LET b == ui.call.b
         r == read_file_text(b, ui.mtime, ok)
         o == [read |-> r.read, same |-> ui.same, avail |-> ok, cached |-> ui.cached,
               data |-> fs[b].data]
     IN  /\ buf' = [buf EXCEPT ![b].cache = r.cache, ![b].mtime = r.mtime]
         /\ ret' = returned(ui.call, r.list, o)
         /\ hist' = observed(ui.call, r.list)
  /\ ui' = Idle
  /\ UNCHANGED <<fs, wr, glob, clock>>

line_count(b, ok) == read_begin(Call("line_count", b, 0, 0, <<>>), ok)

load_chunk(b, end, size, ok) == read_begin(Call("load_chunk", b, end, size, <<>>), ok)

search(b, pattern, ok) == read_begin(Call("search", b, 0, 0, pattern), ok)

\* ------------------------------------------------------------------------
\* shutdown_log_writer and _AsyncFileWriter.close
\* ------------------------------------------------------------------------
\* lines 95-97 and 75: the stop event is set, the UI thread enters join(timeout)
shutdown_begin ==
  /\ ui.pc = "idle"
  /\ glob # 0
  /\ wr' = [wr EXCEPT ![glob].stop = TRUE]
  /\ ui' = [pc |-> "join", w |-> glob, loaded |-> 0]
  /\ hist' = [hist EXCEPT !.shutdowns = @ + 1, !.pending[glob] = Len(wr[glob].q)]
  /\ UNCHANGED <<buf, fs, glob, clock, ret>>

\* lines 77 and 98: join returns (the thread ended, or the timeout elapsed) and
\* the singleton is forgotten
shutdown_end ==
  /\ ui.pc = "join"
  /\ glob' = 0
  /\ ui' = Idle
  /\ hist' = [hist EXCEPT !.early[ui.w] = (wr[ui.w].pc # "dead")]
  /\ UNCHANGED <<buf, fs, wr, clock, ret>>

\* ------------------------------------------------------------------------
\* _AsyncFileWriter._run, the worker thread of writer w
\* ------------------------------------------------------------------------
\* mutant of run_check: the loop ends as soon as stop is set (`while not stop`)
run_check_StopOnly(w) ==
  /\ wr[w].pc = "check"
  /\ wr' = [wr EXCEPT ![w].pc = IF ~wr[w].stop THEN "get" ELSE "dead"]
  /\ UNCHANGED <<buf, fs, glob, ui, clock, ret, hist>>

\* line 44: the loop condition
run_check(w) ==
  /\ wr[w].pc = "check"
  /\ wr' = [wr EXCEPT ![w].pc = IF ~wr[w].stop \/ wr[w].q # <<>> THEN "get" ELSE "dead"]
  /\ UNCHANGED <<buf, fs, glob, ui, clock, ret, hist>>

\* lines 45-48: q.get(timeout=0.2) returns the head, or raises Empty on timeout
run_get(w) ==
  /\ wr[w].pc = "get"
  /\ wr' = IF wr[w].q # <<>>
           THEN [wr EXCEPT ![w].job = Head(wr[w].q), ![w].q = Tail(wr[w].q),
                           ![w].pc = "open"]
           ELSE [wr EXCEPT ![w].pc = "check"]
  /\ hist' = IF wr[w].q # <<>> THEN [hist EXCEPT !.taken[w] = Append(@, Head(wr[w].q))]
              ELSE hist
  /\ UNCHANGED <<buf, fs, glob, ui, clock, ret>>

\* open(path, "a"): a missing file is created, empty; an existing one is left
\* as it is
FileOpen(f) == IF f.exists THEN f ELSE [exists |-> TRUE, data |-> <<>>, mtime |-> f.mtime + 1]

\* f.write(text) on a file opened for appending
FileAppend(f, text) == [exists |-> TRUE, data |-> f.data \o text, mtime |-> f.mtime + 1]

\* the timestamps append can produce
Timestamps == {Timestamp(t) : t \in 0..MaxClock}

\* what a write of text that raises can have put into the file: any prefix of
\* the text (nothing, or all of it when the error comes with the close, among
\* them); a prefix that ends inside a timestamp ends with the timestamp cut short
PartsOf(text) ==
  {SubSeq(text, 1, k) : k \in 0..Len(text)}
    \cup {Append(SubSeq(text, 1, k - 1), text[k] \o "~") :
            k \in {i \in 1..Len(text) : text[i] \in Timestamps}}

\* the file after a write that raised with part written: as it was when nothing
\* was written
FilePart(f, part) == IF part = <<>> THEN f ELSE FileAppend(f, part)

\* lines 51-52 (ok = FALSE: mkdir or open raised; lines 64-71 follow)
run_open(w, ok) ==
  /\ wr[w].pc = "open"
  /\ ~ok => hist.fails < MaxFails
  /\ fs' = IF ok THEN [fs EXCEPT ![wr[w].job.path] = FileOpen(@)] ELSE fs
  /\ wr' = [wr EXCEPT ![w].pc = IF ok THEN "write" ELSE "check",
                      ![w].job = IF ok THEN @ ELSE NoJob]
  /\ hist' = [hist EXCEPT !.fails = IF ok THEN @ ELSE @ + 1]
  /\ UNCHANGED <<buf, glob, ui, clock, ret>>

\* mutant of run_write: a failing write ends the worker thread
run_write_Dies(w, ok) ==
  /\ wr[w].pc = "write"
  /\ ~ok => hist.fails < MaxFails
  /\ IF ok
     THEN fs' = [fs EXCEPT ![wr[w].job.path] = FileAppend(@, wr[w].job.text)]
     ELSE \E part \in PartsOf(wr[w].job.text) :
            fs' = [fs EXCEPT ![wr[w].job.path] = FilePart(@, part)]
  /\ wr' = [wr EXCEPT ![w].pc = IF ok THEN "test" ELSE "dead",
                      ![w].job = IF ok THEN @ ELSE NoJob]
  /\ hist' = [hist EXCEPT !.fails = IF ok THEN @ ELSE @ + 1,
                          !.written[w] = IF ok THEN Append(@, wr[w].job) ELSE @]
  /\ UNCHANGED <<buf, glob, ui, clock, ret>>

\* line 53 and the end of the with block (ok = FALSE: the write or the close
\* raised, with some part of the text written; lines 64-71 follow)
run_write(w, ok) ==
  /\ wr[w].pc = "write"
  /\ ~ok => hist.fails < MaxFails
  /\ IF ok
     THEN fs' = [fs EXCEPT ![wr[w].job.path] = FileAppend(@, wr[w].job.text)]
     ELSE \E part \in PartsOf(wr[w].job.text) :
            fs' = [fs EXCEPT ![wr[w].job.path] = FilePart(@, part)]
  /\ wr' = [wr EXCEPT ![w].pc = IF ok THEN "test" ELSE "check",
                      ![w].job = IF ok THEN @ ELSE NoJob]
  /\ hist' = [hist EXCEPT !.fails = IF ok THEN @ ELSE @ + 1,
                          !.written[w] = IF ok THEN Append(@, wr[w].job) ELSE @]
  /\ UNCHANGED <<buf, glob, ui, clock, ret>>

\* lines 56-57: `if self._dropped: dropped = self._dropped`
run_test(w) ==
  /\ wr[w].pc = "test"
  /\ wr' = IF wr[w].dropped # 0
           THEN [wr EXCEPT ![w].local = wr[w].dropped, ![w].pc = "reset"]
           ELSE [wr EXCEPT ![w].pc = "check", ![w].job = NoJob]
  /\ UNCHANGED <<buf, fs, glob, ui, clock, ret, hist>>

\* line 58: self._dropped = 0
run_reset(w) ==
  /\ wr[w].pc = "reset"
  /\ wr' = [wr EXCEPT ![w].dropped = 0, ![w].pc = "annotate"]
  /\ UNCHANGED <<buf, fs, glob, ui, clock, ret, hist>>

\* str(n) for n >= 0, one character per decimal digit
RECURSIVE Digits(_)
Digits(n) == IF n < 10 THEN <<ToString(n)>> ELSE Digits(n \div 10) \o <<ToString(n % 10)>>

\* f"[log-writer] dropped {dropped} chunks due to backpressure\n"
Annotation(n) ==
  <<"[", "l", "o", "g", "-", "w", "r", "i", "t", "e", "r", "]", " ",
    "d", "r", "o", "p", "p", "e", "d", " ">>
  \o Digits(n)
  \o <<" ", "c", "h", "u", "n", "k", "s", " ", "d", "u", "e", " ", "t", "o", " ",
       "b", "a", "c", "k", "p", "r", "e", "s", "s", "u", "r", "e", LF>>

\* lines 59-63 (ok = FALSE: the open, the write or the close raised, with some
\* part of the annotation written)
run_annotate(w, ok) ==
  /\ wr[w].pc = "annotate"
  /\ ~ok => hist.fails < MaxFails
  /\ IF ok
     THEN fs' = [fs EXCEPT ![wr[w].job.path] = FileAppend(@, Annotation(wr[w].local))]
     ELSE \E part \in PartsOf(Annotation(wr[w].local)) :
            fs' = [fs EXCEPT ![wr[w].job.path] = FilePart(@, part)]
  /\ wr' = [wr EXCEPT ![w].pc = "check", ![w].job = NoJob, ![w].local = 0]
  /\ hist' = [hist EXCEPT !.fails = IF ok THEN @ ELSE @ + 1,
                          !.noted[w] = IF ok THEN @ + wr[w].local ELSE @,
                          !.rej[wr[w].job.path] = IF ok THEN 0 ELSE @]
  /\ UNCHANGED <<buf, glob, ui, clock, ret>>

\* ------------------------------------------------------------------------
\* Initial state: the module imported, both LogBuffers constructed, no log files
\* ------------------------------------------------------------------------
InitMemory ==
  /\ buf = [b \in Bufs |-> NewLogBuffer]
  /\ wr = <<>>
  /\ glob = 0
  /\ ui = Idle
  /\ clock = 0
  /\ ret = NoRet
  /\ hist = NoHist

InitProgram ==
  /\ InitMemory
  /\ pager = NoPager
  /\ fs = [b \in Bufs |-> NoFile]

Texts(alphabet, n) == UNION {[1..k -> alphabet] : k \in 0..n}

\* ------------------------------------------------------------------------
\* SpecChunks: one input stream delivered to LogBuffer 1 in chunks cut at every
\* position, with clear() in between; the worker thread is not scheduled
\* ------------------------------------------------------------------------
StreamAlphabet == {"x", CR, LF}

InitChunks ==
  /\ InitProgram
  /\ feed \in Texts(StreamAlphabet, MaxLen)

AppendNext ==
  \E n \in 1..Len(feed), t \in clock..Min(clock + 1, MaxClock) :
    /\ append(1, SubSeq(feed, 1, n), t)
    /\ feed' = Drop(feed, n)
    /\ UNCHANGED pager

StoreNext == write_load \/ write_store

ClearNext ==
  /\ hist.clears < MaxClears
  /\ clear(1, TRUE)
  /\ UNCHANGED <<feed, pager>>

NextChunks == AppendNext \/ StoreNext \/ ClearNext

SpecChunks == InitChunks /\ [][NextChunks]_vars

\* the content of a display rendering: what follows "[<blue>ts<reset>] ", without
\* the final "\n"
ContentOf(d) == SubSeq(d, 7, Len(d) - 1)

\* s cut after every "\n" (each piece without it); s is empty or ends with "\n"
RECURSIVE SplitOnLF(_)
SplitOnLF(s) ==
  IF s = <<>> THEN <<>>
  ELSE LET i == FirstIn(s, {LF}, 1)
       IN  IF i = 0 THEN <<s>>
           ELSE <<SubSeq(s, 1, i - 1)>> \o SplitOnLF(Drop(s, i))

\* everything delivered to LogBuffer b so far, joined
Delivered(b) == join(hist.texts[b])

LastN(s, n) == IF Len(s) <= n THEN s ELSE SubSeq(s, Len(s) - n + 1, Len(s))

CountOf(s, c) == Cardinality({i \in 1..Len(s) : s[i] = c})

\* C1: chunk-boundary invariance.  Once a text T that ends with a line ending has
\* been delivered to a fresh LogBuffer in consecutive non-empty chunks, cut at any
\* positions, the line contents appended to the ring are normalize(T) split on
\* "\n" (what the single call append(T) appends), and partial is empty.
C1_ChunkInvariance ==
  LET T == Delivered(1) IN
  (feed = <<>> /\ ~hist.cleared[1] /\ T # <<>> /\ T[Len(T)] \in {CR, LF})
    => /\ [i \in 1..Len(hist.dlines[1]) |-> ContentOf(hist.dlines[1][i])]
            = SplitOnLF(normalize(T))
       /\ buf[1].partial = <<>>

\* C2: the ring never holds more than MAX_LOG_LINES entries; it holds exactly the
\* most recent MAX_LOG_LINES of the lines appended since the last clear, in
\* insertion order, and get_recent returns their concatenation.
C2_RingBound ==
  \A b \in Bufs :
    /\ Len(buf[b].lines) <= MAX_LOG_LINES
    /\ buf[b].lines = LastN(hist.since[b], MAX_LOG_LINES)
    /\ get_recent(b) = join(LastN(hist.since[b], MAX_LOG_LINES))

\* C2 witness: after a clear, one append call carried more than MAX_LOG_LINES
\* lines and the oldest of them were evicted
C2_Witness ==
  /\ hist.cleared[1]
  /\ ret.op = "append"
  /\ CountOf(ret.display, LF) > MAX_LOG_LINES
  /\ Len(hist.since[1]) > Len(buf[1].lines)
  /\ Len(buf[1].lines) = MAX_LOG_LINES

\* C5: clear() immediately followed by append("x\n") leaves exactly one rendered
\* line in the live view, with content exactly "x".
C5_ClearThenAppend ==
  (hist.last.op = "append" /\ hist.last.after = "clear" /\ hist.last.text = <<"x", LF>>)
    => /\ Len(buf[hist.last.b].lines) = 1
       /\ ContentOf(buf[hist.last.b].lines[1]) = <<"x">>
       /\ get_recent(hist.last.b) = buf[hist.last.b].lines[1]

\* ------------------------------------------------------------------------
\* SpecHistory: the history reader over a log file left by earlier writes.  The
\* LogBuffer is newly constructed (no writer yet); its file holds n lines of the
\* persisted format: timestamped lines and drop annotations.
\* ------------------------------------------------------------------------
SampleLines ==
  << FileLine("T0", <<"a", "x">>),
     FileLine("T0", <<"A", "X">>),
     FileLine("T1", <<"x">>),
     Annotation(1),
     FileLine("T1", <<>>) >>

HistoryFile(n) ==
  join([i \in 1..n |-> SampleLines[(i % Len(SampleLines)) + 1]])

PatternAlphabet == {"a", "X"}
MaxPattern == 2

HistoryState ==
  /\ InitMemory
  /\ feed = <<>>
  /\ \E n \in 0..MaxHist :
       fs = [b \in Bufs |-> IF b = 1
                            THEN [exists |-> TRUE, data |-> HistoryFile(n), mtime |-> 1]
                            ELSE NoFile]

InitHistory ==
  /\ HistoryState
  /\ pager = NoPager

LoadChunkNext ==
  /\ \E end \in -1..(MaxHist + 1), size \in 0..MaxSize :
       load_chunk(1, end, size, TRUE)
  /\ UNCHANGED <<feed, pager>>

SearchNext ==
  /\ \E pattern \in Texts(PatternAlphabet, MaxPattern) :
       search(1, pattern, TRUE)
  /\ UNCHANGED <<feed, pager>>

LineCountNext ==
  /\ \E ok \in BOOLEAN : line_count(1, ok)
  /\ UNCHANGED <<feed, pager>>

ReadEndNext ==
  /\ read_end(TRUE)
  /\ UNCHANGED <<feed, pager>>

NextHistory == LoadChunkNext \/ SearchNext \/ LineCountNext \/ ReadEndNext

SpecHistory == InitHistory /\ [][NextHistory]_vars

\* C6: load_chunk(end, size) on a history of n lines returns ("", 0) when n = 0 or
\* end <= 0; for 0 < end <= n and size >= 1 it returns new_start =
\* max(0, end - size) and exactly the min(size, end) lines new_start .. end-1, in
\* order, each re-colorized and newline-terminated.
C6_LoadChunk ==
  ret.op = "load_chunk" =>
    LET n == Len(ret.lines)
        count == ret.end - ret.start
    IN  /\ (n = 0 \/ ret.end <= 0) => (ret.text = <<>> /\ ret.start = 0)
        /\ (0 < ret.end /\ ret.end <= n /\ ret.size >= 1) =>
             /\ ret.start = Max(0, ret.end - ret.size)
             /\ count = Min(ret.size, ret.end)
             /\ count <= ret.size
             /\ CountOf(ret.text, LF) = count
             /\ ret.text = join([k \in 1..count |->
                                   colorize(ret.lines[ret.start + k]) \o <<LF>>])

\* C6 witness: load_chunk(10, 5) on a 10-line history returned new_start = 5
C6_Witness ==
  /\ ret.op = "load_chunk"
  /\ Len(ret.lines) = 10
  /\ ret.end = 10
  /\ ret.size = 5
  /\ ret.start = 5
  /\ CountOf(ret.text, LF) = 5

\* the lines of ls that contain p, case-insensitively, in order
RECURSIVE MatchesOf(_, _)
MatchesOf(ls, p) ==
  IF ls = <<>> THEN <<>>
  ELSE (IF contains(lower(Head(ls)), lower(p)) THEN <<Head(ls)>> ELSE <<>>)
       \o MatchesOf(Tail(ls), p)

\* C8: search(pattern) returns the number of historical lines that contain the
\* pattern case-insensitively and exactly those lines, in order, re-colorized and
\* newline-terminated; patterns differing only in case give the same result; the
\* empty pattern matches every line; no match gives ("", 0).
C8_Search ==
  ret.op = "search" =>
    LET exp == MatchesOf(ret.lines, ret.pattern) IN
    /\ ret.count = Cardinality({i \in 1..Len(ret.lines) :
                      contains(lower(ret.lines[i]), lower(ret.pattern))})
    /\ ret.count = Len(exp)
    /\ ret.text = join([k \in 1..Len(exp) |-> colorize(exp[k]) \o <<LF>>])
    /\ \A p2 \in Texts(PatternAlphabet \cup {"A", "x"}, MaxPattern) :
         lower(p2) = lower(ret.pattern) =>
           search_of(ret.lines, p2) = [text |-> ret.text, count |-> ret.count]
    /\ ret.pattern = <<>> => ret.count = Len(ret.lines)
    /\ ret.count = 0 => ret.text = <<>>

\* C8 witness: a pattern that matches one line only through case folding, while
\* other lines of the history do not match
C8_Witness ==
  /\ ret.op = "search"
  /\ ret.count >= 1
  /\ ret.count < Len(ret.lines)
  /\ \E i \in 1..Len(ret.lines) :
       /\ contains(lower(ret.lines[i]), lower(ret.pattern))
       /\ ~contains(ret.lines[i], ret.pattern)
       /\ ~contains(ret.lines[i], lower(ret.pattern))

\* ------------------------------------------------------------------------
\* The worker thread of every writer created so far
\* ------------------------------------------------------------------------
Worker(w) ==
  /\ \/ run_check(w)
     \/ run_get(w)
     \/ run_open(w, TRUE)
     \/ run_write(w, TRUE)
     \/ run_test(w)
     \/ run_reset(w)
     \/ run_annotate(w, TRUE)
  /\ UNCHANGED <<feed, pager>>

WorkerStep == \E w \in 1..Len(wr) : Worker(w)

\* ------------------------------------------------------------------------
\* Spec: two LogBuffers fed by the UI thread share the writer singleton; its
\* worker thread runs concurrently.  No I/O failure, no clear, no shutdown.
\* ------------------------------------------------------------------------
Chunks == {<<"x", LF>>, <<FF, LF>>}

Init ==
  /\ InitProgram
  /\ feed = <<>>

AppendOp ==
  /\ hist.appends < MaxAppends
  /\ \E b \in Bufs, text \in Chunks : append(b, text, clock)
  /\ UNCHANGED <<feed, pager>>

Next ==
  \/ AppendOp
  \/ StoreNext
  \/ WorkerStep

Spec == Init /\ [][Next]_vars

\* the jobs of stream b that write accepted, in call order
Accepted(b) == SelectSeq(hist.sent[b], LAMBDA j : j.acc)

TextsOf(js) == [i \in 1..Len(js) |-> js[i].text]

NoDrops == \A b \in Bufs : \A i \in 1..Len(hist.sent[b]) : hist.sent[b][i].acc

\* data is the concatenation of a prefix of ts
IsPrefixConcat(data, ts) == \E k \in 0..Len(ts) : data = join(SubSeq(ts, 1, k))

\* s without the drop annotations in it (s is empty or ends with "\n")
RemoveAnnotations(s) ==
  LET kept == SelectSeq(SplitOnLF(s),
                        LAMBDA l : ~(Len(l) >= 2 /\ l[1] = "[" /\ l[2] = "l"))
  IN  join([k \in 1..Len(kept) |-> kept[k] \o <<LF>>])

\* every write call of stream b was accepted
StreamNoDrops(b) == \A i \in 1..Len(hist.sent[b]) : hist.sent[b][i].acc

\* the jobs of every stream reach their file in the order write accepted them:
\* drop annotations aside, a file is the concatenation of a prefix of the
\* accepted jobs of its stream
FifoAnnotationsAside ==
  \A b \in Bufs :
    (~hist.cleared[b] /\ hist.fails = 0) =>
      IsPrefixConcat(RemoveAnnotations(fs[b].data), TextsOf(Accepted(b)))

\* C4: per-file FIFO persistence with the LogBuffers sharing one writer queue.
\* For a stream with no clear, no dropped job and no I/O failure, the file
\* content is at every moment the concatenation of a prefix of the file_text
\* values of the stream's append calls, in call order; with drops it is, drop
\* annotations aside, the concatenation of an order-preserving subsequence.
C4_PerFileFifo ==
  \A b \in Bufs :
    (~hist.cleared[b] /\ hist.fails = 0) =>
      /\ StreamNoDrops(b) => IsPrefixConcat(fs[b].data, TextsOf(hist.sent[b]))
      /\ IsPrefixConcat(RemoveAnnotations(fs[b].data), TextsOf(Accepted(b)))

\* no job of stream b is still queued or being written
Written(b) ==
  \A w \in 1..Len(wr) :
    /\ \A i \in 1..Len(wr[w].q) : wr[w].q[i].path # b
    /\ wr[w].pc \in {"open", "write"} => wr[w].job.path # b

\* C7: round trip through the file.  For ANSI-free lines appended with no drop,
\* no I/O failure and no clear, once the worker has written them the historical
\* line list equals the file renderings append produced, one-to-one and in
\* order, and load_chunk over a line's index returns the display rendering
\* append returned for that line.
C7_RoundTrip ==
  \A b \in Bufs :
    ( /\ Range(Delivered(b)) \cap AnsiCodes = {}
      /\ ~hist.cleared[b] /\ hist.fails = 0 /\ NoDrops
      /\ hist.flines[b] # <<>>
      /\ Written(b) ) =>
      LET l == read_file(b, TRUE).list IN
      /\ Len(l) = Len(hist.flines[b])
      /\ \A i \in 1..Len(l) :
           /\ l[i] \o <<LF>> = hist.flines[b][i]
           /\ load_chunk_of(l, i, 1).text = hist.dlines[b][i]

\* C9: a drop annotation with count N is written into file F only with N equal
\* to the number of jobs addressed to F that were rejected since the previous
\* annotation in F; a job dropped for file A never produces an annotation in
\* another file B.
C9_DropsAnnotatedInOwnFile ==
  \A w \in 1..Len(wr) :
    wr[w].pc = "annotate" => wr[w].local = hist.rej[wr[w].job.path]

\* ------------------------------------------------------------------------
\* SpecWriter: one LogBuffer writing to the singleton, shutdown_log_writer and
\* lazy re-creation, the worker threads scheduled fairly
\* ------------------------------------------------------------------------
AppendW ==
  /\ hist.appends < MaxWrites
  /\ append(1, <<"x", LF>>, clock)
  /\ UNCHANGED <<feed, pager>>

ShutdownBegin == shutdown_begin /\ UNCHANGED <<feed, pager>>

ShutdownEnd == shutdown_end /\ UNCHANGED <<feed, pager>>

NextWriter ==
  \/ AppendW
  \/ StoreNext
  \/ ShutdownBegin
  \/ ShutdownEnd
  \/ WorkerStep

WorkerOf(w) == w <= Len(wr) /\ Worker(w)

SpecWriter ==
  /\ Init
  /\ [][NextWriter]_vars
  /\ \A w \in 1..MaxWriters : WF_vars(WorkerOf(w))

\* the queue of the writer _writer() returns, before it is created when missing
QueueBefore == IF glob = 0 THEN <<>> ELSE wr[glob].q
DroppedBefore == IF glob = 0 THEN 0 ELSE wr[glob].dropped

\* the number of write calls made on writer w
SentTo(w) ==
  LET n1 == Cardinality({i \in 1..Len(hist.sent[1]) : hist.sent[1][i].w = w})
      n2 == Cardinality({i \in 1..Len(hist.sent[2]) : hist.sent[2][i].w = w})
  IN  n1 + n2

\* a step leaves at most max_queue jobs in every queue
QueueBounded == \A w \in 1..Len(wr') : Len(wr'[w].q) <= max_queue

\* a non-empty write up to the outcome of put_nowait: one job more at the tail
\* and dropped unchanged, or the queue unchanged and the increment under way
PutStep ==
  (hist'.appends = hist.appends + 1 /\ ret'.file # <<>>) =>
    IF Len(QueueBefore) < max_queue
    THEN /\ wr'[glob'].q = Append(QueueBefore, [path |-> ret'.b, text |-> ret'.file])
         /\ wr'[glob'].dropped = DroppedBefore
         /\ ui'.pc = "idle"
    ELSE /\ wr'[glob'].q = QueueBefore
         /\ ui'.pc = "load"

\* the end of a write to a full queue: dropped is one more than it was
DropStep ==
  (ui.pc = "store" /\ ui'.pc = "idle") =>
    /\ wr'[ui.w].dropped = wr[ui.w].dropped + 1
    /\ wr'[ui.w].q = wr[ui.w].q

\* while the worker has removed nothing, after n > max_queue writes the queue
\* holds the first max_queue jobs and dropped = n - max_queue
Saturated ==
  \A w \in 1..Len(wr') :
    (hist'.taken[w] = <<>> /\ ui'.pc = "idle" /\ SentTo(w)' > max_queue) =>
      /\ wr'[w].q = hist'.enq[w]
      /\ Len(wr'[w].q) = max_queue
      /\ wr'[w].dropped = SentTo(w)' - max_queue

\* C3: write never waits; the queue never holds more than max_queue jobs; a
\* non-empty write to a full queue leaves the queue unchanged and increases
\* dropped by exactly 1, one to a non-full queue appends exactly one job at the
\* tail and leaves dropped unchanged; while the worker removes nothing, after
\* n > max_queue writes the queue holds the first max_queue jobs and
\* dropped = n - max_queue.
C3_WriteCounts == [][QueueBounded /\ PutStep /\ DropStep /\ Saturated]_vars

\* C10: after close() has set stop, the worker does not exit while the queue is
\* non-empty: when it has ended, every job put into its queue has been taken, in
\* order, and processed; once stop is set the worker eventually ends; join
\* returns whether or not the worker has ended.
C10_ShutdownDrains ==
  /\ [](\A w \in 1..Len(wr) :
          wr[w].pc = "dead" =>
            /\ wr[w].stop
            /\ wr[w].q = <<>>
            /\ hist.taken[w] = hist.enq[w])
  /\ [](\A w \in 1..Len(wr) : hist.taken[w] \o wr[w].q = hist.enq[w])
  /\ [](ui.pc = "join" => ENABLED ShutdownEnd)
  /\ \A w \in 1..MaxWriters :
       (Len(wr) >= w /\ wr[w].stop) ~> (Len(wr) >= w /\ wr[w].pc = "dead")

\* C10 witness: a worker that ended after close() had found jobs queued and had
\* returned before the worker ended
C10_Witness ==
  \E w \in 1..Len(wr) :
    /\ wr[w].pc = "dead"
    /\ hist.pending[w] >= 1
    /\ hist.early[w]
    /\ Len(hist.taken[w]) >= 2

\* ------------------------------------------------------------------------
\* SpecIO: two LogBuffers and the worker thread, whose mkdir, open and write
\* calls may fail (at most MaxFails times)
\* ------------------------------------------------------------------------
WorkerIO(w) ==
  /\ \/ run_check(w)
     \/ run_get(w)
     \/ \E ok \in BOOLEAN : run_open(w, ok)
     \/ \E ok \in BOOLEAN : run_write(w, ok)
     \/ run_test(w)
     \/ run_reset(w)
     \/ \E ok \in BOOLEAN : run_annotate(w, ok)
  /\ UNCHANGED <<feed, pager>>

WorkerIOStep == \E w \in 1..Len(wr) : WorkerIO(w)

AppendIO ==
  /\ hist.appends < MaxWrites
  /\ \E b \in Bufs : append(b, <<"x", LF>>, clock)
  /\ UNCHANGED <<feed, pager>>

NextIO == AppendIO \/ StoreNext \/ WorkerIOStep

SpecIO == Init /\ [][NextIO]_vars

\* a is an order-preserving subsequence of b
RECURSIVE IsSubseq(_, _)
IsSubseq(a, b) ==
  IF a = <<>> THEN TRUE
  ELSE IF b = <<>> THEN FALSE
  ELSE IF Head(a) = Head(b) THEN IsSubseq(Tail(a), Tail(b))
  ELSE IsSubseq(a, Tail(b))

\* the step at which an I/O call of worker w raises
FailureOf(w) ==
  /\ hist'.fails = hist.fails + 1
  /\ wr[w].pc \in {"open", "write", "annotate"}
  /\ wr'[w].pc # wr[w].pc

\* C11: an I/O failure (mkdir, open or write raising) never ends the worker and
\* reaches no caller: the worker discards the job and returns to its loop, the
\* other jobs of the queue and every LogBuffer's ring, partial and cache are
\* unchanged, and the later jobs are taken and written in queue order.  (The
\* file of the failed job may keep a part of its text; no other file changes.)
C11_IOFailuresSwallowed ==
  /\ [][\A w \in 1..Len(wr) :
          FailureOf(w) =>
            /\ wr'[w].pc = "check"
            /\ wr'[w].job = NoJob
            /\ wr'[w].q = wr[w].q
            /\ \A b \in Bufs : b # wr[w].job.path => fs'[b] = fs[b]
            /\ buf' = buf
            /\ ui' = ui
            /\ ret' = ret]_vars
  /\ [](\A w \in 1..Len(wr) :
          /\ wr[w].pc # "dead"
          /\ hist.taken[w] \o wr[w].q = hist.enq[w]
          /\ IsSubseq(hist.written[w], hist.taken[w])
          /\ Len(hist.taken[w]) - Len(hist.written[w])
               <= hist.fails + (IF wr[w].pc \in {"open", "write"} THEN 1 ELSE 0))

\* C11 witness: the open or write of the first job failed, and the worker has written
\* the next job of the queue, addressed to the other file
C11_Witness ==
  \E w \in 1..Len(wr) :
    /\ hist.fails >= 1
    /\ Len(hist.enq[w]) >= 2
    /\ hist.enq[w][1].path # hist.enq[w][2].path
    /\ hist.written[w] = <<hist.enq[w][2]>>
    /\ wr[w].pc = "check"

\* ------------------------------------------------------------------------
\* SpecLate: SpecWriter, and a producer that still holds a writer on which
\* close() was called and calls write on it
\* ------------------------------------------------------------------------
\* _AsyncFileWriter.write(path, text) on writer w, not obtained through _writer()
late_write(w, path, text) ==
  /\ ui.pc = "idle"
  /\ wr[w].stop
  /\ LET wres == write(wr, w, path, text) IN
       /\ wr' = wres.wr
       /\ ui' = wres.ui
       /\ hist' = [hist EXCEPT
             !.appends = @ + 1,
             !.rej[path] = IF wres.ui.pc = "load" THEN @ + 1 ELSE @,
             !.enq[w] = IF wres.acc THEN Append(@, [path |-> path, text |-> text]) ELSE @,
             !.sent[path] = Append(@, [text |-> text, acc |-> wres.acc, w |-> w])]
  /\ UNCHANGED <<buf, fs, glob, clock, ret>>

LateWrite ==
  /\ hist.appends < MaxWrites
  /\ \E w \in 1..Len(wr) : late_write(w, 1, FileLine(Timestamp(clock), <<"x">>))
  /\ UNCHANGED <<feed, pager>>

NextLate ==
  \/ AppendW
  \/ StoreNext
  \/ ShutdownBegin
  \/ ShutdownEnd
  \/ LateWrite
  \/ WorkerStep

SpecLate ==
  /\ Init
  /\ [][NextLate]_vars
  /\ \A w \in 1..MaxWriters : WF_vars(WorkerOf(w))

\* C12: no silent data loss.  With no I/O failure every job write accepted is
\* appended to its file exactly once, in order, and (the worker scheduled fairly)
\* eventually; this for writes made at any time, those made after close() on the
\* same writer included.  (A job write did not accept is a rejected one, counted
\* in dropped.)
C12_NoSilentLoss ==
  /\ [](\A w \in 1..Len(wr) :
          /\ Len(hist.written[w]) <= Len(hist.enq[w])
          /\ hist.written[w] = SubSeq(hist.enq[w], 1, Len(hist.written[w])))
  /\ \A w \in 1..MaxWriters :
       []<>(Len(wr) < w \/ hist.written[w] = hist.enq[w])

\* the worker threads that have not ended
Alive == {w \in 1..Len(wr) : wr[w].pc # "dead"}

\* C13: exactly one background worker.  Across append and shutdown_log_writer
\* calls (a shutdown whose bounded wait ends before the old worker has ended,
\* followed by an append that creates a new writer, included) at most one worker
\* thread is alive at any moment, and the file keeps the order of the append
\* calls across the re-creation.
C13_OneWorker ==
  /\ Cardinality(Alive) <= 1
  /\ FifoAnnotationsAside

\* C14: after any sequence of append and clear calls with arbitrary chunks, the
\* buffered partial contains no "\n", and every entry of the ring ends with
\* exactly one "\n" and contains no other.
C14_NewlineShape ==
  \A b \in Bufs :
    /\ LF \notin Range(buf[b].partial)
    /\ \A i \in 1..Len(buf[b].lines) :
         /\ endswith_nl(buf[b].lines[i])
         /\ CountOf(buf[b].lines[i], LF) = 1

\* C14 witness: after a clear, chunks holding "\r" have left two lines in the
\* ring and an unterminated fragment in partial
C14_Witness ==
  /\ hist.cleared[1]
  /\ CR \in Range(Delivered(1))
  /\ Len(buf[1].lines) >= 2
  /\ buf[1].partial # <<>>
  /\ ret.op = "append"

\* ------------------------------------------------------------------------
\* SpecCache: one LogBuffer with append, clear and the historical reads, while
\* the worker thread writes the queued jobs into the file.  The UI thread makes
\* at most MaxWrites calls that change the log (append or clear), at most
\* MaxClears of them clear().
\* ------------------------------------------------------------------------
AppendC ==
  /\ hist.appends + hist.clears < MaxWrites
  /\ append(1, <<"x", LF>>, clock)
  /\ UNCHANGED <<feed, pager>>

ClearC ==
  /\ hist.appends + hist.clears < MaxWrites
  /\ hist.clears < MaxClears
  /\ clear(1, TRUE)
  /\ UNCHANGED <<feed, pager>>

LineCountC ==
  /\ line_count(1, TRUE)
  /\ UNCHANGED <<feed, pager>>

LoadChunkC ==
  /\ load_chunk(1, 1, 1, TRUE)
  /\ UNCHANGED <<feed, pager>>

SearchC ==
  /\ search(1, <<"X">>, TRUE)
  /\ UNCHANGED <<feed, pager>>

NextCache ==
  \/ AppendC
  \/ StoreNext
  \/ ClearC
  \/ LineCountC
  \/ LoadChunkC
  \/ SearchC
  \/ ReadEndNext
  \/ WorkerStep

SpecCache == Init /\ [][NextCache]_vars

ReadOps == {"line_count", "load_chunk", "search"}

\* C15 as stated: the file is read and split only when its modification time
\* differs from the one recorded at the last cached read; when the two are equal
\* the cached list is returned without reading the file.
C15_ReadOnlyOnNewMtime ==
  (ret.op \in ReadOps /\ ret.avail) => (ret.read <=> ~ret.same)

\* C15, amended: the file is read and split exactly when its modification time
\* differs from the recorded one or no non-empty cached list is held (append and
\* clear discard the cache; an empty list is not reused); otherwise the cached
\* list is returned without reading the file.
C15_ReadPolicy ==
  (ret.op \in ReadOps /\ ret.avail) => (ret.read <=> ~(ret.same /\ ret.cached))

\* C15 witness: a read of the file although its modification time was the
\* recorded one, after an append had discarded the cache
C15_Witness ==
  /\ ret.op \in ReadOps
  /\ ret.avail
  /\ ret.same
  /\ ~ret.cached
  /\ ret.read
  /\ ret.lines # <<>>

\* C17: cache coherence.  Whenever the backing file exists and is readable, the
\* line list line_count, load_chunk and search operate on is the content of the
\* file at the moment of the call, split into lines: a cached list is never
\* stale (every modification of the file changes its modification time).
C17_CacheCoherent ==
  (ret.op \in ReadOps /\ ret.avail) => ret.lines = splitlines(normalize(ret.data))

\* C17 witness: a call answered from the cache, without reading the file, after
\* the worker had written two jobs into the file
C17_Witness ==
  /\ ret.op \in ReadOps
  /\ ret.avail
  /\ ~ret.read
  /\ Len(ret.lines) >= 2
  /\ \E w \in 1..Len(wr) : Len(hist.written[w]) >= 2

\* ------------------------------------------------------------------------
\* SpecPaging: a caller pages backwards through an unchanging history: it takes
\* end from line_count(), then calls load_chunk(end, size) and continues from
\* the new_start returned, until the result is empty
\* ------------------------------------------------------------------------
InitPaging ==
  /\ HistoryState
  /\ \E size \in 1..MaxSize : pager = [NoPager EXCEPT !.size = size]

\* the caller's loop after a call returned r
Paged(p, r) ==
  IF r.op = "line_count" THEN [p EXCEPT !.on = TRUE, !.end = r.count]
  ELSE IF r.text = <<>> THEN [p EXCEPT !.done = TRUE]
  ELSE [p EXCEPT !.end = r.start, !.chunks = Append(@, r.text)]

PageStart ==
  /\ ~pager.on
  /\ line_count(1, TRUE)
  /\ pager' = IF ui'.pc = "idle" THEN Paged(pager, ret') ELSE pager
  /\ UNCHANGED feed

PageNext ==
  /\ pager.on
  /\ ~pager.done
  /\ load_chunk(1, pager.end, pager.size, TRUE)
  /\ pager' = IF ui'.pc = "idle" THEN Paged(pager, ret') ELSE pager
  /\ UNCHANGED feed

PageRead ==
  /\ read_end(TRUE)
  /\ pager' = Paged(pager, ret')
  /\ UNCHANGED feed

NextPaging == PageStart \/ PageNext \/ PageRead

SpecPaging == InitPaging /\ [][NextPaging]_vars

Ceil(n, d) == (n + d - 1) \div d

Reverse(q) == [i \in 1..Len(q) |-> q[Len(q) + 1 - i]]

\* the lines of the history file of LogBuffer 1
HistoryLines == splitlines(normalize(fs[1].data))

\* C16: backward pagination over an unchanging history of n >= 1 lines with any
\* size >= 1, from end = n: the chunks retrieved so far, in reverse order of
\* retrieval, are exactly the lines end .. n-1 in order; the loop never yields
\* more than ceil(n/size) non-empty chunks, and reaches the empty result after
\* exactly ceil(n/size) of them, all n lines covered, none repeated or skipped.
C16_Pagination ==
  (pager.on /\ Len(HistoryLines) >= 1) =>
    LET n == Len(HistoryLines)
        k == Len(pager.chunks)
    IN  /\ pager.end \in 0..n
        /\ k <= Ceil(n, pager.size)
        /\ join(Reverse(pager.chunks)) = Rendered(SubSeq(HistoryLines, pager.end + 1, n))
        /\ k = Ceil(n - pager.end, pager.size)
        /\ pager.done => (pager.end = 0 /\ k = Ceil(n, pager.size))
        /\ ~pager.done => ENABLED NextPaging

\* C16 witness: 10 lines paged with size 3: the empty result came after 4 chunks
C16_Witness ==
  /\ pager.done
  /\ Len(HistoryLines) = 10
  /\ pager.size = 3
  /\ Len(pager.chunks) = 4
  /\ ret.op = "load_chunk"
  /\ ret.text = <<>>

\* the number of write calls on writer w that found the queue full
Rejected(w) ==
  LET n1 == Cardinality({i \in 1..Len(hist.sent[1]) :
                           hist.sent[1][i].w = w /\ ~hist.sent[1][i].acc})
      n2 == Cardinality({i \in 1..Len(hist.sent[2]) :
                           hist.sent[2][i].w = w /\ ~hist.sent[2][i].acc})
  IN  n1 + n2

\* drops of writer w on their way into the count: an increment of dropped that
\* has not stored yet, a count taken by the worker and not yet written out
InFlight(w) ==
  (IF ui.pc \in {"load", "store"} /\ ui.w = w THEN 1 ELSE 0)
    + (IF wr[w].pc = "annotate" THEN wr[w].local ELSE 0)

\* C18: no drop is lost from the count.  In every interleaving of the increment
\* of dropped on a full queue with the worker's read-then-reset, the number of
\* jobs rejected so far equals the sum of the counts in the drop annotations
\* written so far plus the current value of dropped (a step under way counted
\* with what it is about to add).
C18_NoDropLost ==
  \A w \in 1..Len(wr) :
    Rejected(w) = hist.noted[w] + wr[w].dropped + InFlight(w)

\* every worker has drained its queue and holds no job
Drained ==
  \A w \in 1..Len(wr) : wr[w].q = <<>> /\ wr[w].pc \in {"check", "get", "dead"}

\* C19: clear() empties the history for good.  If no append is made after
\* clear() returned, then once the worker has drained its queue the backing file
\* is empty and line_count() is 0: jobs enqueued before the clear are not
\* written into the file after the truncation.
C19_ClearForGood ==
  \A b \in Bufs :
    (hist.prev[b] = "clear" /\ Drained /\ ui.pc = "idle") =>
      /\ fs[b].data = <<>>
      /\ Len(read_file(b, TRUE).list) = 0

\* C20: history never shrinks without a clear.  For one LogBuffer with no clear,
\* no dropped job, no I/O failure and fewer than MAX_LOG_LINES lines appended,
\* line_count() never returns less than the call before it did, in every
\* interleaving of the append calls with the worker's writes.
C20_LineCountMonotone ==
  [][ ( /\ ~hist'.cleared[1]
        /\ StreamNoDrops(1)'
        /\ hist'.fails = 0
        /\ Len(hist'.dlines[1]) < MAX_LOG_LINES
        /\ hist.count[1] # -1 )
      => hist'.count[1] >= hist.count[1] ]_vars

====
